---- MODULE Spec2Model ----
(***************************************************************************)
(* Deployment tracking of devcli: the TrackedDeployment entity, the        *)
(* file-based tracker store and the StatusOrchestrator that refreshes      *)
(* tracked deployments against the run gateway.                            *)
(*                                                                         *)
(* Time is counted in ticks; TicksPerSecond ticks make one second, so that *)
(* time.Time.Unix() (whole seconds) is a real truncation.                  *)
(***************************************************************************)
EXTENDS Integers, Sequences, FiniteSets, TLC

VARIABLES
    now,     \* the wall clock (time.Now()), in ticks
    store,   \* the tracker directory: run id -> trackedRecord (one file per record)
    td,      \* a TrackedDeployment value held by a caller of the domain package
    run,     \* a Run entity held by a caller of the domain package
    remote,  \* the remote system: run id -> the run's current status and conclusion
    calls,   \* the ListTracked/GetTracked calls in flight, per caller
    op       \* the last operation, its inputs and what it returned

vars == <<now, store, td, run, remote, calls, op>>

----------------------------------------------------------------------------
(* Bounds and units *)

TicksPerSecond == 2

MaxSmallTicks == 1

MaxBigSteps == 1

sevenDaysInSeconds == 604800

\* A jump of the clock just past the retention window.
BigStep == sevenDaysInSeconds * TicksPerSecond + 1

TickSteps == {1, BigStep}

NoTime == -1

----------------------------------------------------------------------------
(* Domain values *)

RunStatusQueued == "queued"
RunStatusInProgress == "in_progress"
RunStatusCompleted == "completed"
RunStatusUnknown == "unknown"

RunStatuses == {RunStatusQueued, RunStatusInProgress, RunStatusCompleted, RunStatusUnknown}

RunConclusionSuccess == "success"
RunConclusionFailure == "failure"
RunConclusionCancelled == "cancelled"
RunConclusionNeutral == "neutral"
RunConclusionSkipped == "skipped"
RunConclusionUnknown == "unknown"

RunConclusions == {RunConclusionSuccess, RunConclusionFailure, RunConclusionCancelled,
                   RunConclusionNeutral, RunConclusionSkipped, RunConclusionUnknown}

NewWorkflow(name) == [name |-> name, id |-> ""]

NewWorkflowWithID(name, id) == [name |-> name, id |-> id]

\* The inputs the callers use.
RunIds == {"run-1", "run-2"}
Workflows == {NewWorkflow("deploy.yml")}
Branches == {"main"}
Repos == {"owner/repo"}

----------------------------------------------------------------------------
(* TrackedDeployment *)

NewTrackedDeployment(runID, workflow, branch, repo, t) ==
    [id |-> runID, runID |-> runID, workflow |-> workflow, branch |-> branch,
     status |-> RunStatusQueued, conclusion |-> "", startedAt |-> t,
     completedAt |-> NoTime, repo |-> repo]

UpdateStatus(d, status) == [d EXCEPT !.status = status]

\* Mutant: the conclusion is recorded without forcing the status to completed.
UpdateConclusion_KeepsStatus(d, conclusion, t) ==
    [d EXCEPT !.conclusion = conclusion, !.completedAt = t]

UpdateConclusion(d, conclusion, t) ==
    [d EXCEPT !.conclusion = conclusion, !.status = RunStatusCompleted, !.completedAt = t]

IsActive(d) == d.status = RunStatusInProgress \/ d.status = RunStatusQueued

IsCompleted(d) == d.status = RunStatusCompleted

IsSuccess(d) == d.conclusion = RunConclusionSuccess

\* ElapsedTime read from the status instead of the completion time.
ElapsedTime_ByStatus(d, t) ==
    IF d.status = RunStatusCompleted /\ d.completedAt # NoTime
    THEN d.completedAt - d.startedAt
    ELSE IF d.status = RunStatusCompleted THEN 0 ELSE t - d.startedAt

\* The duration in ticks, t the time of the call.
ElapsedTime(d, t) ==
    IF d.completedAt # NoTime THEN d.completedAt - d.startedAt
    ELSE t - d.startedAt

\* IsStale that always measures from the start time.
IsStale_FromStart(d, maxAge, t) == t - d.startedAt > maxAge

\* maxAge is a duration in ticks, t the time of the call.
IsStale(d, maxAge, t) ==
    IF d.completedAt # NoTime THEN t - d.completedAt > maxAge
    ELSE t - d.startedAt > maxAge

\* The zero value of TrackedDeployment.
NilTD == [id |-> "", runID |-> "", workflow |-> NewWorkflow(""), branch |-> "",
          status |-> "", conclusion |-> "", startedAt |-> NoTime,
          completedAt |-> NoTime, repo |-> ""]

----------------------------------------------------------------------------
(* Run entity *)

\* A Run as the domain package holds it; number, branch and url never change
\* and are left out.
NewRunEntity(id, status, t) ==
    [id |-> id, status |-> status, conclusion |-> "", createdAt |-> t,
     startedAt |-> NoTime, completedAt |-> NoTime]

NilRun == [id |-> "", status |-> "", conclusion |-> "", createdAt |-> NoTime,
           startedAt |-> NoTime, completedAt |-> NoTime]

RunUpdateStatus(r, status, t) ==
    [r EXCEPT !.status = status,
              !.startedAt = IF status = RunStatusInProgress /\ r.startedAt = NoTime
                            THEN t ELSE r.startedAt]

RunUpdateConclusion(r, conclusion, t) ==
    [r EXCEPT !.conclusion = conclusion,
              !.status = RunStatusCompleted,
              !.completedAt = IF r.completedAt = NoTime THEN t ELSE r.completedAt]

----------------------------------------------------------------------------
(* FileTrackerRepository *)

\* time.Time.Unix(): whole seconds.
Unix(t) == t \div TicksPerSecond

\* A trackedRecord whose run_id is filled from the wrong getter.
ToRecord_RunIDFromRepo(d) ==
    [id |-> d.id, run_id |-> d.repo, workflow |-> d.workflow.name, branch |-> d.branch,
     status |-> d.status, conclusion |-> d.conclusion, started_at |-> Unix(d.startedAt),
     completed_at |-> IF d.completedAt # NoTime THEN Unix(d.completedAt) ELSE NoTime,
     repo |-> d.repo]

\* The trackedRecord Save writes for a TrackedDeployment.
ToRecord(d) ==
    [id |-> d.id, run_id |-> d.runID, workflow |-> d.workflow.name, branch |-> d.branch,
     status |-> d.status, conclusion |-> d.conclusion, started_at |-> Unix(d.startedAt),
     completed_at |-> IF d.completedAt # NoTime THEN Unix(d.completedAt) ELSE NoTime,
     repo |-> d.repo]

StoreSave(st, d) ==
    [id \in DOMAIN st \cup {d.id} |-> IF id = d.id THEN ToRecord(d) ELSE st[id]]

\* loadFromFile on an existing, well-formed file, read at time t.
loadFromFile(record, t) ==
    LET d0 == NewTrackedDeployment(record.run_id, NewWorkflow(record.workflow),
                                   record.branch, record.repo, t)
        d1 == UpdateStatus(d0, record.status)
    IN IF record.conclusion # "" THEN UpdateConclusion(d1, record.conclusion, t) ELSE d1

\* A file os.WriteFile has truncated and not (or not yet) written: its bytes
\* are no JSON document.
TruncatedFile ==
    [id |-> "", run_id |-> "", workflow |-> "", branch |-> "", status |-> "",
     conclusion |-> "", started_at |-> NoTime, completed_at |-> NoTime, repo |-> ""]

\* loadFromFile returns an error: json.Unmarshal or NewWorkflow fails.
LoadFails(record) == record = TruncatedFile \/ record.workflow = ""

\* loadFromFile that reports a missing file as an error.
LoadFile_AbsentIsError(st, id, t) ==
    IF id \notin DOMAIN st \/ LoadFails(st[id]) THEN [kind |-> "error", td |-> NilTD]
    ELSE [kind |-> "ok", td |-> loadFromFile(st[id], t)]

\* The whole of loadFromFile for the file of id, read at time t:
\* "absent" is its (nil, nil), "error" its (nil, err).
LoadFile(st, id, t) ==
    IF id \notin DOMAIN st THEN [kind |-> "absent", td |-> NilTD]
    ELSE IF LoadFails(st[id]) THEN [kind |-> "error", td |-> NilTD]
    ELSE [kind |-> "ok", td |-> loadFromFile(st[id], t)]

\* os.ReadDir returns the entries sorted by file name.
ReadDirOrder == <<"run-1", "run-2">>

\* The directory entries os.ReadDir returns.
ReadDir(st) == SelectSeq(ReadDirOrder, LAMBDA id : id \in DOMAIN st)

\* List's loop when nothing else touches the directory; a file that does not
\* load is skipped.
RECURSIVE LoadAll(_, _, _)
LoadAll(st, ids, t) ==
    IF ids = <<>> THEN <<>>
    ELSE LET f == LoadFile(st, Head(ids), t)
         IN IF f.kind = "ok" THEN <<f.td>> \o LoadAll(st, Tail(ids), t)
            ELSE LoadAll(st, Tail(ids), t)

StoreList(st, t) == LoadAll(st, ReadDirOrder, t)

\* GetByID: the record, or absent (the empty sequence) when there is no file
\* or when loadFromFile returns an error.
StoreGetByID(st, id, t) ==
    LET f == LoadFile(st, id, t)
    IN IF f.kind = "ok" THEN <<f.td>> ELSE <<>>

\* GetByID returns an error.
StoreGetByIDErr(st, id, t) == LoadFile(st, id, t).kind = "error"

StoreRemove(st, id) == [x \in DOMAIN st \ {id} |-> st[x]]

\* What os.Remove returns for the file of id.
OsRemove(st, id) == IF id \in DOMAIN st THEN "ok" ELSE "notexist"

\* Remove that reports a missing file.
StoreRemoveErr_MissingIsError(st, id) == OsRemove(st, id) # "ok"

\* Remove returns an error.
StoreRemoveErr(st, id) ==
    IF OsRemove(st, id) # "ok"
    THEN IF OsRemove(st, id) = "notexist" THEN FALSE ELSE TRUE
    ELSE FALSE

\* ListActive without its filter.
StoreListActive_All(st, t) == StoreList(st, t)

StoreListActive(st, t) == SelectSeq(StoreList(st, t), IsActive)

RECURSIVE CleanupLoop(_, _, _, _, _)
CleanupLoop(all, st, count, maxAge, t) ==
    IF all = <<>> THEN [store |-> st, removed |-> count]
    ELSE IF IsStale(Head(all), maxAge, t)
         THEN CleanupLoop(Tail(all), StoreRemove(st, Head(all).id), count + 1, maxAge, t)
         ELSE CleanupLoop(Tail(all), st, count, maxAge, t)

StoreCleanup(st, maxAgeSecs, t) ==
    CleanupLoop(StoreList(st, t), st, 0, maxAgeSecs * TicksPerSecond, t)

----------------------------------------------------------------------------
(* The run gateway (domain.RunRepository.GetRun) *)

\* A Run as the orchestrator reads it: Status() and Conclusion().
NewRun(status) == [kind |-> "run", status |-> status, conclusion |-> ""]

stringToRunStatus(s) ==
    CASE s = "queued" -> RunStatusQueued
      [] s = "in_progress" -> RunStatusInProgress
      [] s = "completed" -> RunStatusCompleted
      [] OTHER -> RunStatusQueued

stringToRunConclusion(s) ==
    CASE s = "success" -> RunConclusionSuccess
      [] s = "failure" -> RunConclusionFailure
      [] s = "cancelled" -> RunConclusionCancelled
      [] s = "skipped" -> RunConclusionSkipped
      [] OTHER -> ""

\* What `gh run view --json status,conclusion` can print.
GhStatuses == {"queued", "in_progress", "completed", "waiting", "pending", "requested"}
GhConclusions == {"", "success", "failure", "cancelled", "skipped", "neutral", "timed_out"}

\* GitHubRunRepository.GetRun on a successful gh call: the conclusion is parsed
\* but never put on the returned Run (UpdateRunConclusion is a no-op).
GitHubGetRun(ghStatus, ghConclusion) == NewRun(stringToRunStatus(ghStatus))

GwError == [kind |-> "error", status |-> "", conclusion |-> ""]
GwNil == [kind |-> "nil", status |-> "", conclusion |-> ""]
NoCall == [kind |-> "none", status |-> "", conclusion |-> ""]

\* The conclusions the modelled gateways report ("" = none).
GatewayConclusions == {"", RunConclusionSuccess, RunConclusionFailure}

\* Every answer an implementation of RunRepository.GetRun can give: an error, no
\* run, or a Run with any status and conclusion (a Run is built with NewRun and
\* changed with Run.UpdateStatus / Run.UpdateConclusion in any order).
Replies ==
    {GwError, GwNil}
    \cup [kind : {"run"}, status : RunStatuses, conclusion : GatewayConclusions]
    \cup {GitHubGetRun(s, c) : s \in GhStatuses, c \in GhConclusions}

----------------------------------------------------------------------------
(* StatusOrchestrator *)

\* The refresh of one active record with the gateway's answer, at time t.
RefreshRecord(d, reply, t) ==
    IF reply.kind = "run"
    THEN LET d1 == UpdateStatus(d, reply.status)
         IN IF reply.conclusion # "" THEN UpdateConclusion(d1, reply.conclusion, t) ELSE d1
    ELSE d

\* ListTracked's loop that asks the gateway about every record.
RECURSIVE RefreshLoop_CallsAll(_, _, _, _, _)
RefreshLoop_CallsAll(tracked, st, i, replies, t) ==
    IF i > Len(tracked) THEN [tracked |-> tracked, store |-> st, gets |-> <<>>]
    ELSE LET d == tracked[i]
             reply == replies[d.runID]
             n == RefreshRecord(d, reply, t)
             rest == IF reply.kind = "run"
                     THEN RefreshLoop_CallsAll([tracked EXCEPT ![i] = n], StoreSave(st, n),
                                               i + 1, replies, t)
                     ELSE RefreshLoop_CallsAll(tracked, st, i + 1, replies, t)
         IN [rest EXCEPT !.gets = <<d.runID>> \o @]

\* ListTracked's loop that ends at the first gateway failure.
RECURSIVE RefreshLoop_StopsAtFailure(_, _, _, _, _)
RefreshLoop_StopsAtFailure(tracked, st, i, replies, t) ==
    IF i > Len(tracked) THEN [tracked |-> tracked, store |-> st, gets |-> <<>>]
    ELSE LET d == tracked[i]
             reply == replies[d.runID]
         IN IF IsActive(d)
            THEN LET n == RefreshRecord(d, reply, t)
                     rest == IF reply.kind = "run"
                             THEN RefreshLoop_StopsAtFailure([tracked EXCEPT ![i] = n],
                                                             StoreSave(st, n), i + 1, replies, t)
                             ELSE [tracked |-> tracked, store |-> st, gets |-> <<>>]
                 IN [rest EXCEPT !.gets = <<d.runID>> \o @]
            ELSE RefreshLoop_StopsAtFailure(tracked, st, i + 1, replies, t)

\* ListTracked's loop from index i on: the slice and the store it leaves, and
\* gets, the run ids GetRun was called with, in the order of the calls.
RECURSIVE RefreshLoop(_, _, _, _, _)
RefreshLoop(tracked, st, i, replies, t) ==
    IF i > Len(tracked) THEN [tracked |-> tracked, store |-> st, gets |-> <<>>]
    ELSE LET d == tracked[i]
             reply == replies[d.runID]
         IN IF IsActive(d)
            THEN LET n == RefreshRecord(d, reply, t)
                     rest == IF reply.kind = "run"
                             THEN RefreshLoop([tracked EXCEPT ![i] = n], StoreSave(st, n),
                                              i + 1, replies, t)
                             ELSE RefreshLoop(tracked, st, i + 1, replies, t)
                 IN [rest EXCEPT !.gets = <<d.runID>> \o @]
            ELSE RefreshLoop(tracked, st, i + 1, replies, t)

cleanupStale(st, t) == StoreCleanup(st, sevenDaysInSeconds, t).store

\* Mutant: a record whose gateway call failed is dropped from the result.
ListTrackedResult_DropsFailed(st, replies, t) ==
    LET r == RefreshLoop(StoreList(st, t), st, 1, replies, t)
        answered(d) == ~(IsActive(d) /\ replies[d.runID].kind \in {"error", "nil"})
    IN [tracked |-> SelectSeq(StoreList(st, t), answered), store |-> cleanupStale(r.store, t),
        gets |-> r.gets, cleanups |-> 1]

\* ListTracked at time t with the gateway answering replies[runID]:
\* the returned slice, the store it leaves, the GetRun calls it made and the
\* number of times it called cleanupStale.
ListTrackedResult(st, replies, t) ==
    LET r == RefreshLoop(StoreList(st, t), st, 1, replies, t)
    IN [tracked |-> r.tracked, store |-> cleanupStale(r.store, t), gets |-> r.gets,
        cleanups |-> 1]

\* GetTracked that refreshes the record it returns and does not save it.
GetTrackedResult_NoSave(st, id, reply, t) ==
    LET got == StoreGetByID(st, id, t)
    IN IF got # <<>> /\ IsActive(got[1])
       THEN [ret |-> <<RefreshRecord(got[1], reply, t)>>, store |-> st, gets |-> <<id>>]
       ELSE [ret |-> got, store |-> st, gets |-> <<>>]

\* GetTracked: the returned record (or absent), the store it leaves and the
\* GetRun calls it made.
GetTrackedResult(st, id, reply, t) ==
    LET got == StoreGetByID(st, id, t)
    IN IF got # <<>> /\ IsActive(got[1])
       THEN IF reply.kind = "run"
            THEN LET n == RefreshRecord(got[1], reply, t)
                 IN [ret |-> <<n>>, store |-> StoreSave(st, n), gets |-> <<got[1].runID>>]
            ELSE [ret |-> got, store |-> st, gets |-> <<got[1].runID>>]
       ELSE [ret |-> got, store |-> st, gets |-> <<>>]

\* ListActive that runs ListTracked's pass before it filters.
ListActiveResult_Refreshes(st, t) ==
    LET r == ListTrackedResult(st, [id \in DOMAIN st |-> GwNil], t)
    IN [tracked |-> SelectSeq(r.tracked, IsActive), store |-> r.store, gets |-> r.gets]

\* The orchestrator's ListActive: the slice it returns, the store it leaves
\* and the GetRun calls it made.
ListActiveResult(st, t) ==
    [tracked |-> StoreListActive(st, t), store |-> st, gets |-> <<>>]

----------------------------------------------------------------------------
(* The state machine *)

NoReplies == [id \in RunIds |-> NoCall]

\* The failures of the file system during one call: what os.ReadDir returns to
\* the call's List and to the List of its Cleanup ("ok", "notexist", "error"),
\* where its Saves fail ("none": they succeed), and the ids whose os.Remove
\* fails.
NoFailure == [readDir |-> "ok", save |-> "none", cleanupReadDir |-> "ok", remove |-> {}]

\* name: the operation; id: its run id argument; loaded: what it read from the
\* store; replies: the gateway's answer per run id (NoCall: GetRun not called);
\* ret: the records it returned; err: it returned an error; removed, maxAge:
\* Cleanup's count and argument (maxAge is IsStale's argument too); flag, value:
\* the boolean or the duration a query of the entity returned (for
\* DismissTracked, flag tells that os.Remove found the file); gets: the run
\* ids GetRun was called with, in the order of the calls; failure: the
\* failures of the file system during the call; cleanups: the number of calls
\* of cleanupStale the operation made.
Op(name, id, loaded, replies, ret, err, removed, maxAge) ==
    [name |-> name, id |-> id, loaded |-> loaded, replies |-> replies, ret |-> ret,
     err |-> err, removed |-> removed, maxAge |-> maxAge, flag |-> FALSE, value |-> 0,
     gets |-> <<>>, failure |-> NoFailure, cleanups |-> 0]

NoOp == Op("init", "", <<>>, NoReplies, <<>>, FALSE, 0, 0)

EmptyStore == [id \in {} |-> NilTD]

\* The callers that may have a ListTracked or GetTracked call in flight.
Callers == {"A", "B"}

Idle == [kind |-> "idle", pc |-> "idle", id |-> "", loaded |-> <<>>, tracked |-> <<>>,
         i |-> 0, replies |-> NoReplies, reply |-> NoCall, entries |-> <<>>]

NoCalls == [c \in Callers |-> Idle]

\* Every run starts queued on the remote system.
RemoteInit == [id \in RunIds |-> NewRun(RunStatusQueued)]

Init ==
    /\ now = 0
    /\ store = EmptyStore
    /\ td = NilTD
    /\ run = NilRun
    /\ remote = RemoteInit
    /\ calls = NoCalls
    /\ op = NoOp

\* Time passes between two operations.
CanTick(d) ==
    IF d = 1 THEN now % BigStep < MaxSmallTicks ELSE now \div BigStep < MaxBigSteps

Tick ==
    \E d \in TickSteps :
        /\ CanTick(d)
        /\ now' = now + d
        /\ op' = Op("Tick", "", <<>>, NoReplies, <<>>, FALSE, 0, 0)
        /\ UNCHANGED <<store, td, run, remote, calls>>

TrackDeployment ==
    \E runID \in RunIds, workflow \in Workflows, branch \in Branches, repo \in Repos :
        LET d == NewTrackedDeployment(runID, workflow, branch, repo, now)
        IN /\ store' = StoreSave(store, d)
           /\ op' = Op("TrackDeployment", runID, <<>>, NoReplies, <<d>>, FALSE, 0, 0)
           /\ UNCHANGED <<now, td, run, remote, calls>>

ActiveIds(tracked) == {tracked[i].runID : i \in {j \in 1..Len(tracked) : IsActive(tracked[j])}}

ListTracked ==
    LET loaded == StoreList(store, now)
    IN \E answers \in [ActiveIds(loaded) -> Replies] :
        LET replies == [id \in RunIds |-> IF id \in DOMAIN answers THEN answers[id] ELSE NoCall]
            r == ListTrackedResult(store, replies, now)
        IN /\ store' = r.store
           /\ op' = [Op("ListTracked", "", loaded, replies, r.tracked, FALSE, 0, 0)
                       EXCEPT !.gets = r.gets, !.cleanups = r.cleanups]
           /\ UNCHANGED <<now, td, run, remote, calls>>

\* tracker.List fails (os.ReadDir fails on an existing directory): ListTracked
\* returns the error at once.
ListTrackedListFails ==
    /\ op' = Op("ListTracked", "", <<>>, NoReplies, <<>>, TRUE, 0, 0)
    /\ UNCHANGED <<now, store, td, run, remote, calls>>

GetTracked ==
    \E id \in RunIds :
        LET loaded == StoreGetByID(store, id, now)
            called == loaded # <<>> /\ IsActive(loaded[1])
        IN \E reply \in (IF called THEN Replies ELSE {NoCall}) :
            LET r == GetTrackedResult(store, id, reply, now)
            IN /\ store' = r.store
               /\ op' = [Op("GetTracked", id, loaded, [NoReplies EXCEPT ![id] = reply],
                            r.ret, StoreGetByIDErr(store, id, now), 0, 0)
                           EXCEPT !.gets = r.gets]
               /\ UNCHANGED <<now, td, run, remote, calls>>

ListActive ==
    LET r == ListActiveResult(store, now)
    IN /\ store' = r.store
       /\ op' = [Op("ListActive", "", <<>>, NoReplies, r.tracked, FALSE, 0, 0)
                   EXCEPT !.gets = r.gets]
       /\ UNCHANGED <<now, td, run, remote, calls>>

DismissTracked ==
    \E id \in RunIds :
        /\ store' = StoreRemove(store, id)
        /\ op' = [Op("DismissTracked", id, <<>>, NoReplies, <<>>,
                     StoreRemoveErr(store, id), 0, 0)
                    EXCEPT !.flag = OsRemove(store, id) = "ok"]
        /\ UNCHANGED <<now, td, run, remote, calls>>

\* The retention windows Cleanup is called with, in seconds.
MaxAges == {1, sevenDaysInSeconds}

Cleanup ==
    \E maxAgeSecs \in MaxAges :
        LET r == StoreCleanup(store, maxAgeSecs, now)
        IN /\ store' = r.store
           /\ op' = Op("Cleanup", "", StoreList(store, now), NoReplies, <<>>, FALSE,
                       r.removed, maxAgeSecs)
           /\ UNCHANGED <<now, td, run, remote, calls>>

Next ==
    \/ Tick
    \/ TrackDeployment
    \/ ListTracked
    \/ ListTrackedListFails
    \/ GetTracked
    \/ ListActive
    \/ DismissTracked
    \/ Cleanup

Spec == Init /\ [][Next]_vars

----------------------------------------------------------------------------
(* A caller that holds one TrackedDeployment, changes it with the entity's  *)
(* methods and uses the store directly (as the tests of the packages do).   *)

\* The values the caller passes to UpdateStatus and UpdateConclusion.
EntityStatuses == RunStatuses
EntityConclusions == {RunConclusionSuccess, RunConclusionFailure, RunConclusionCancelled}

InitEntity ==
    /\ now = 0
    /\ store = EmptyStore
    /\ td \in {NewTrackedDeployment(runID, workflow, branch, repo, 0) :
                  runID \in {"run-1"}, workflow \in Workflows, branch \in Branches,
                  repo \in Repos}
    /\ run = NilRun
    /\ remote = RemoteInit
    /\ calls = NoCalls
    /\ op = NoOp

EntUpdateStatus ==
    \E status \in EntityStatuses :
        /\ td' = UpdateStatus(td, status)
        /\ op' = Op("UpdateStatus", td.id, <<>>, NoReplies, <<>>, FALSE, 0, 0)
        /\ UNCHANGED <<now, store, run, remote, calls>>

EntUpdateConclusion ==
    \E conclusion \in EntityConclusions :
        /\ td' = UpdateConclusion(td, conclusion, now)
        /\ op' = Op("UpdateConclusion", td.id, <<>>, NoReplies, <<>>, FALSE, 0, 0)
        /\ UNCHANGED <<now, store, run, remote, calls>>

\* tracker.Save(td); ret is the record handed to Save.
EntSave ==
    /\ store' = StoreSave(store, td)
    /\ op' = Op("Save", td.id, <<>>, NoReplies, <<td>>, FALSE, 0, 0)
    /\ UNCHANGED <<now, td, run, remote, calls>>

\* tracker.GetByID(id); ret is what it returned.
EntGetByID ==
    \E id \in RunIds :
        /\ op' = Op("GetByID", id, <<>>, NoReplies, StoreGetByID(store, id, now),
                    StoreGetByIDErr(store, id, now), 0, 0)
        /\ UNCHANGED <<now, store, td, run, remote, calls>>

\* tracker.GetByID(td.ID()) of a stored record; the caller goes on with the
\* record it returned.
EntReload ==
    LET got == StoreGetByID(store, td.id, now)
    IN /\ got # <<>>
       /\ td' = got[1]
       /\ op' = Op("Reload", td.id, <<>>, NoReplies, got,
                   StoreGetByIDErr(store, td.id, now), 0, 0)
       /\ UNCHANGED <<now, store, run, remote, calls>>

\* The durations IsStale is asked about, in ticks.
StaleAges == {1, 2, BigStep}

\* td.IsStale(maxAge); flag is what it returned, maxAge is in ticks here.
EntIsStale ==
    \E maxAge \in StaleAges :
        /\ op' = [Op("IsStale", td.id, <<>>, NoReplies, <<>>, FALSE, 0, maxAge)
                    EXCEPT !.flag = IsStale(td, maxAge, now)]
        /\ UNCHANGED <<now, store, td, run, remote, calls>>

\* td.ElapsedTime(); value is what it returned.
EntElapsedTime ==
    /\ op' = [Op("ElapsedTime", td.id, <<>>, NoReplies, <<>>, FALSE, 0, 0)
                EXCEPT !.value = ElapsedTime(td, now)]
    /\ UNCHANGED <<now, store, td, run, remote, calls>>

NextEntity ==
    \/ Tick
    \/ EntUpdateStatus
    \/ EntUpdateConclusion
    \/ EntSave
    \/ EntGetByID
    \/ EntReload
    \/ EntIsStale
    \/ EntElapsedTime

SpecEntity == InitEntity /\ [][NextEntity]_vars

----------------------------------------------------------------------------
(* The orchestrator over a store whose writes can fail. Save fails in       *)
(* os.MkdirAll, in the open of os.WriteFile, or in its write; a failure of  *)
(* the write comes after the open has created or truncated the file.        *)

SaveFailures == {"mkdir", "open", "write"}

\* The store a failed Save(d) leaves.
SaveFailed(st, d, failure) ==
    IF failure = "write"
    THEN [id \in DOMAIN st \cup {d.id} |-> IF id = d.id THEN TruncatedFile ELSE st[id]]
    ELSE st

\* TrackDeployment when tracker.Save returns an error: the zero record and the
\* error.
TrackDeploymentSaveFails ==
    \E runID \in RunIds, workflow \in Workflows, branch \in Branches, repo \in Repos,
       failure \in SaveFailures :
        LET d == NewTrackedDeployment(runID, workflow, branch, repo, now)
        IN /\ store' = SaveFailed(store, d, failure)
           /\ op' = Op("TrackDeployment", runID, <<>>, NoReplies, <<>>, TRUE, 0, 0)
           /\ UNCHANGED <<now, td, run, remote, calls>>

\* What os.ReadDir can return for the store directory: it is missing only
\* before the first Save has created it.
ReadDirOutcomes(st) ==
    IF st = EmptyStore THEN {"ok", "notexist", "error"} ELSE {"ok", "error"}

\* List that reports a missing directory as an error.
ListResult_MissingIsError(st, readDir, t) ==
    IF readDir # "ok" THEN [tracked |-> <<>>, err |-> TRUE]
    ELSE [tracked |-> LoadAll(st, ReadDir(st), t), err |-> FALSE]

\* List: the slice and whether an error is returned.
ListResult(st, readDir, t) ==
    IF readDir = "notexist" THEN [tracked |-> <<>>, err |-> FALSE]
    ELSE IF readDir = "error" THEN [tracked |-> <<>>, err |-> TRUE]
    ELSE [tracked |-> LoadAll(st, ReadDir(st), t), err |-> FALSE]

\* Cleanup's loop when os.Remove fails for the ids in failing: the error is
\* dropped and the record is not counted.
RECURSIVE CleanupLoopFailing(_, _, _, _, _, _)
CleanupLoopFailing(all, st, count, maxAge, failing, t) ==
    IF all = <<>> THEN [store |-> st, removed |-> count]
    ELSE IF IsStale(Head(all), maxAge, t) /\ Head(all).id \notin failing
         THEN CleanupLoopFailing(Tail(all), StoreRemove(st, Head(all).id), count + 1,
                                 maxAge, failing, t)
         ELSE CleanupLoopFailing(Tail(all), st, count, maxAge, failing, t)

\* Cleanup: the store it leaves, its count and whether it returns an error.
CleanupResult(st, maxAgeSecs, readDir, failing, t) ==
    LET all == ListResult(st, readDir, t)
        r == CleanupLoopFailing(all.tracked, st, 0, maxAgeSecs * TicksPerSecond, failing, t)
    IN IF all.err THEN [store |-> st, removed |-> 0, err |-> TRUE]
       ELSE [store |-> r.store, removed |-> r.removed, err |-> FALSE]

\* ListTracked's loop when tracker.Save fails in the way save tells ("none":
\* it succeeds); the error of Save is dropped.
RECURSIVE RefreshLoopFailing(_, _, _, _, _, _)
RefreshLoopFailing(tracked, st, i, replies, save, t) ==
    IF i > Len(tracked) THEN [tracked |-> tracked, store |-> st, gets |-> <<>>]
    ELSE LET d == tracked[i]
             reply == replies[d.runID]
         IN IF IsActive(d)
            THEN LET n == RefreshRecord(d, reply, t)
                     saved == IF save = "none" THEN StoreSave(st, n)
                              ELSE SaveFailed(st, n, save)
                     rest == IF reply.kind = "run"
                             THEN RefreshLoopFailing([tracked EXCEPT ![i] = n], saved,
                                                     i + 1, replies, save, t)
                             ELSE RefreshLoopFailing(tracked, st, i + 1, replies, save, t)
                 IN [rest EXCEPT !.gets = <<d.runID>> \o @]
            ELSE RefreshLoopFailing(tracked, st, i + 1, replies, save, t)

\* ListTracked that returns the error of cleanupStale.
ListTrackedFailing_CleanupErrorSurfaces(st, replies, failure, t) ==
    LET all == ListResult(st, failure.readDir, t)
        r == RefreshLoopFailing(all.tracked, st, 1, replies, failure.save, t)
        c == CleanupResult(r.store, sevenDaysInSeconds, failure.cleanupReadDir,
                           failure.remove, t)
    IN IF all.err \/ c.err
       THEN [tracked |-> <<>>, store |-> c.store, gets |-> r.gets, err |-> TRUE,
             cleanups |-> 1]
       ELSE [tracked |-> r.tracked, store |-> c.store, gets |-> r.gets, err |-> FALSE,
             cleanups |-> 1]

\* ListTracked that runs cleanupStale before it returns the error of List.
ListTrackedFailing_CleansUpOnListError(st, replies, failure, t) ==
    LET all == ListResult(st, failure.readDir, t)
        r == RefreshLoopFailing(all.tracked, st, 1, replies, failure.save, t)
        c == CleanupResult(r.store, sevenDaysInSeconds, failure.cleanupReadDir,
                           failure.remove, t)
    IN [tracked |-> IF all.err THEN <<>> ELSE r.tracked, store |-> c.store,
        gets |-> r.gets, err |-> all.err, cleanups |-> 1]

\* ListTracked over a file system with the given failures.
ListTrackedFailing(st, replies, failure, t) ==
    LET all == ListResult(st, failure.readDir, t)
        r == RefreshLoopFailing(all.tracked, st, 1, replies, failure.save, t)
        c == CleanupResult(r.store, sevenDaysInSeconds, failure.cleanupReadDir,
                           failure.remove, t)
    IN IF all.err
       THEN [tracked |-> <<>>, store |-> st, gets |-> <<>>, err |-> TRUE, cleanups |-> 0]
       ELSE [tracked |-> r.tracked, store |-> c.store, gets |-> r.gets, err |-> FALSE,
             cleanups |-> 1]

\* tracker.List()
FailList ==
    \E readDir \in ReadDirOutcomes(store) :
        LET r == ListResult(store, readDir, now)
        IN /\ op' = [Op("List", "", <<>>, NoReplies, r.tracked, r.err, 0, 0)
                       EXCEPT !.failure = [NoFailure EXCEPT !.readDir = readDir]]
           /\ UNCHANGED <<now, store, td, run, remote, calls>>

\* The retention windows Cleanup is called with here, in seconds; with -1
\* every record is stale as soon as it is loaded.
FailMaxAges == {-1, sevenDaysInSeconds}

\* tracker.Cleanup(maxAgeSecs)
FailCleanup ==
    \E maxAgeSecs \in FailMaxAges, readDir \in ReadDirOutcomes(store),
       failing \in SUBSET {"run-1"} :
        LET r == CleanupResult(store, maxAgeSecs, readDir, failing, now)
        IN /\ store' = r.store
           /\ op' = [Op("Cleanup", "", ListResult(store, readDir, now).tracked, NoReplies,
                        <<>>, r.err, r.removed, maxAgeSecs)
                       EXCEPT !.failure = [NoFailure EXCEPT !.readDir = readDir,
                                                            !.remove = failing]]
           /\ UNCHANGED <<now, td, run, remote, calls>>

\* The gateway answers used here.
FailReplies ==
    {GwError,
     [kind |-> "run", status |-> RunStatusInProgress, conclusion |-> ""],
     [kind |-> "run", status |-> RunStatusCompleted, conclusion |-> RunConclusionSuccess]}

\* ListTracked()
FailListTracked ==
    \E readDir \in ReadDirOutcomes(store), save \in {"none"} \cup SaveFailures,
       cleanupReadDir \in {"ok", "error"} :
        LET failure == [NoFailure EXCEPT !.readDir = readDir, !.save = save,
                                         !.cleanupReadDir = cleanupReadDir]
            loaded == ListResult(store, readDir, now).tracked
        IN \E answers \in [ActiveIds(loaded) -> FailReplies] :
            LET replies == [id \in RunIds |->
                               IF id \in DOMAIN answers THEN answers[id] ELSE NoCall]
                r == ListTrackedFailing(store, replies, failure, now)
            IN /\ store' = r.store
               /\ op' = [Op("ListTracked", "", loaded, replies, r.tracked, r.err, 0, 0)
                           EXCEPT !.gets = r.gets, !.failure = failure,
                                  !.cleanups = r.cleanups]
               /\ UNCHANGED <<now, td, run, remote, calls>>

NextFail ==
    \/ Tick
    \/ TrackDeployment
    \/ TrackDeploymentSaveFails
    \/ DismissTracked
    \/ ListActive
    \/ EntGetByID
    \/ FailList
    \/ FailCleanup
    \/ FailListTracked

SpecFail == Init /\ [][NextFail]_vars

----------------------------------------------------------------------------
(* A caller that holds one Run and changes it with the entity's methods.    *)

InitRun ==
    /\ now = 0
    /\ store = EmptyStore
    /\ td = NilTD
    /\ run \in {NewRunEntity("run-1", status, 0) : status \in RunStatuses}
    /\ remote = RemoteInit
    /\ calls = NoCalls
    /\ op = NoOp

\* run.UpdateStatus(status)
EntRunUpdateStatus ==
    \E status \in RunStatuses :
        /\ run' = RunUpdateStatus(run, status, now)
        /\ op' = Op("Run.UpdateStatus", run.id, <<>>, NoReplies, <<>>, FALSE, 0, 0)
        /\ UNCHANGED <<now, store, td, remote, calls>>

\* run.UpdateConclusion(conclusion)
EntRunUpdateConclusion ==
    \E conclusion \in RunConclusions :
        /\ run' = RunUpdateConclusion(run, conclusion, now)
        /\ op' = Op("Run.UpdateConclusion", run.id, <<>>, NoReplies, <<>>, FALSE, 0, 0)
        /\ UNCHANGED <<now, store, td, remote, calls>>

NextRun ==
    \/ Tick
    \/ EntRunUpdateStatus
    \/ EntRunUpdateConclusion

SpecRun == InitRun /\ [][NextRun]_vars

----------------------------------------------------------------------------
(* ListTracked and GetTracked calls of several callers in flight at once.   *)
(* A call reads the store when it starts, then for each active record asks  *)
(* the gateway (GetRun blocks on the network) and then applies the answer   *)
(* and saves; the steps of different calls interleave. The remote run only  *)
(* moves forward: queued, in progress, completed with a conclusion.         *)

\* The runs tracked while calls are in flight.
ConcRunIds == {"run-1"}

ConcTrackDeployment ==
    \E runID \in ConcRunIds, workflow \in Workflows, branch \in Branches, repo \in Repos :
        LET d == NewTrackedDeployment(runID, workflow, branch, repo, now)
        IN /\ store' = StoreSave(store, d)
           /\ op' = Op("TrackDeployment", runID, <<>>, NoReplies, <<d>>, FALSE, 0, 0)
           /\ UNCHANGED <<now, td, run, remote, calls>>

\* The remote run moves on.
RemoteAdvance ==
    \E id \in ConcRunIds :
        /\ \/ /\ remote[id].status = RunStatusQueued
              /\ remote' = [remote EXCEPT ![id] = NewRun(RunStatusInProgress)]
           \/ /\ remote[id].status = RunStatusInProgress
              /\ \E conclusion \in GatewayConclusions \ {""} :
                    remote' = [remote EXCEPT ![id] =
                        [kind |-> "run", status |-> RunStatusCompleted,
                         conclusion |-> conclusion]]
        /\ op' = Op("RemoteAdvance", id, <<>>, NoReplies, <<>>, FALSE, 0, 0)
        /\ UNCHANGED <<now, store, td, run, calls>>

\* ListTracked starts: tracker.List.
ConcListTrackedStart ==
    \E c \in Callers :
        /\ calls[c].pc = "idle"
        /\ calls' = [calls EXCEPT ![c] =
              [kind |-> "ListTracked", pc |-> "loop", id |-> "",
               loaded |-> StoreList(store, now), tracked |-> StoreList(store, now),
               i |-> 1, replies |-> NoReplies, reply |-> NoCall, entries |-> <<>>]]
        /\ op' = Op("ListTrackedStart", "", <<>>, NoReplies, <<>>, FALSE, 0, 0)
        /\ UNCHANGED <<now, store, td, run, remote>>

\* GetTracked starts: tracker.GetByID.
ConcGetTrackedStart ==
    \E c \in Callers, id \in ConcRunIds :
        /\ calls[c].pc = "idle"
        /\ calls' = [calls EXCEPT ![c] =
              [kind |-> "GetTracked", pc |-> "loop", id |-> id,
               loaded |-> StoreGetByID(store, id, now),
               tracked |-> StoreGetByID(store, id, now),
               i |-> 1, replies |-> NoReplies, reply |-> NoCall, entries |-> <<>>]]
        /\ op' = Op("GetTrackedStart", id, <<>>, NoReplies, <<>>, FALSE, 0, 0)
        /\ UNCHANGED <<now, store, td, run, remote>>

\* The record at hand is not active: no gateway call, on to the next one.
ConcSkip ==
    \E c \in Callers :
        /\ calls[c].pc = "loop"
        /\ calls[c].i <= Len(calls[c].tracked)
        /\ ~IsActive(calls[c].tracked[calls[c].i])
        /\ calls' = [calls EXCEPT ![c].i = @ + 1]
        /\ op' = Op("Skip", calls[c].tracked[calls[c].i].id, <<>>, NoReplies, <<>>,
                    FALSE, 0, 0)
        /\ UNCHANGED <<now, store, td, run, remote>>

\* GetRun for the active record at hand: the remote run as it is now, or an error.
ConcGetRun ==
    \E c \in Callers :
        /\ calls[c].pc = "loop"
        /\ calls[c].i <= Len(calls[c].tracked)
        /\ IsActive(calls[c].tracked[calls[c].i])
        /\ \E reply \in {GwError, remote[calls[c].tracked[calls[c].i].runID]} :
              /\ calls' = [calls EXCEPT ![c].pc = "apply", ![c].reply = reply,
                              ![c].replies[calls[c].tracked[calls[c].i].runID] = reply]
              /\ op' = Op("GetRun", calls[c].tracked[calls[c].i].id, <<>>,
                          [NoReplies EXCEPT ![calls[c].tracked[calls[c].i].runID] = reply],
                          <<>>, FALSE, 0, 0)
        /\ UNCHANGED <<now, store, td, run, remote>>

\* The answer is applied to the record and the record saved (nothing on an error).
ConcApply ==
    \E c \in Callers :
        LET d == calls[c].tracked[calls[c].i]
            n == RefreshRecord(d, calls[c].reply, now)
        IN /\ calls[c].pc = "apply"
           /\ calls' = [calls EXCEPT ![c].pc = "loop", ![c].i = @ + 1,
                           ![c].tracked[calls[c].i] = n, ![c].reply = NoCall]
           /\ store' = IF calls[c].reply.kind = "run" THEN StoreSave(store, n) ELSE store
           /\ op' = Op("Apply", d.id, <<d>>, NoReplies, <<n>>, FALSE, 0, 0)
           /\ UNCHANGED <<now, td, run, remote>>

\* The call returns; ListTracked runs cleanupStale first.
ConcReturn ==
    \E c \in Callers :
        /\ calls[c].pc = "loop"
        /\ calls[c].i > Len(calls[c].tracked)
        /\ store' = IF calls[c].kind = "ListTracked" THEN cleanupStale(store, now) ELSE store
        /\ calls' = [calls EXCEPT ![c] = Idle]
        /\ op' = Op(calls[c].kind, calls[c].id, calls[c].loaded, calls[c].replies,
                    calls[c].tracked, FALSE, 0, 0)
        /\ UNCHANGED <<now, td, run, remote>>

NextConc ==
    \/ Tick
    \/ ConcTrackDeployment
    \/ RemoteAdvance
    \/ ConcListTrackedStart
    \/ ConcGetTrackedStart
    \/ ConcSkip
    \/ ConcGetRun
    \/ ConcApply
    \/ ConcReturn

SpecConc == Init /\ [][NextConc]_vars

\* The same calls in flight, with DismissTracked as one more operation that
\* can run between two of their steps.
NextDismiss ==
    \/ ConcTrackDeployment
    \/ RemoteAdvance
    \/ DismissTracked
    \/ ConcListTrackedStart
    \/ ConcGetTrackedStart
    \/ ConcSkip
    \/ ConcGetRun
    \/ ConcApply
    \/ ConcReturn

SpecDismiss == Init /\ [][NextDismiss]_vars

----------------------------------------------------------------------------
(* The store used by several goroutines of one process. A system call is a  *)
(* step: Save is os.WriteFile, which opens the file truncating it and then  *)
(* writes the bytes; List is os.ReadDir and then one os.ReadFile per entry; *)
(* Cleanup is List and then its Remove loop; GetByID and Remove are one     *)
(* call each. There is one logical writer: a Save, a Remove and the Remove  *)
(* loop of Cleanup do not overlap. A panic ends the process. The calls are  *)
(* so close together that the clock does not advance between them.          *)

\* The records the callers save at time t.
SaveInputs(t) ==
    LET fresh == {NewTrackedDeployment(runID, workflow, branch, repo, t) :
                     runID \in RunIds, workflow \in Workflows, branch \in Branches,
                     repo \in Repos}
    IN fresh \cup {UpdateConclusion(d, RunConclusionSuccess, t) : d \in fresh}

Crashed == \E c \in Callers : calls[c].pc = "panic"

SaveInFlight == \E c \in Callers : calls[c].kind = "Save"

\* os.MkdirAll, json.MarshalIndent and the open of os.WriteFile (O_TRUNC).
StSaveOpen ==
    \E c \in Callers, d \in SaveInputs(now) :
        /\ ~Crashed
        /\ calls[c].pc = "idle"
        /\ ~SaveInFlight
        /\ store' = [id \in DOMAIN store \cup {d.id} |->
                        IF id = d.id THEN TruncatedFile ELSE store[id]]
        /\ calls' = [calls EXCEPT ![c] =
              [Idle EXCEPT !.kind = "Save", !.pc = "write", !.id = d.id, !.loaded = <<d>>]]
        /\ op' = Op("SaveOpen", d.id, <<>>, NoReplies, <<>>, FALSE, 0, 0)
        /\ UNCHANGED <<now, td, run, remote>>

\* The write and close of os.WriteFile; Save returns.
StSaveWrite ==
    \E c \in Callers :
        /\ ~Crashed
        /\ calls[c].pc = "write"
        /\ store' = StoreSave(store, calls[c].loaded[1])
        /\ calls' = [calls EXCEPT ![c] = Idle]
        /\ op' = Op("Save", calls[c].id, <<>>, NoReplies, calls[c].loaded, FALSE, 0, 0)
        /\ UNCHANGED <<now, td, run, remote>>

StRemove ==
    \E id \in RunIds :
        /\ ~Crashed
        /\ ~SaveInFlight
        /\ store' = StoreRemove(store, id)
        /\ op' = Op("Remove", id, <<>>, NoReplies, <<>>, StoreRemoveErr(store, id), 0, 0)
        /\ UNCHANGED <<now, td, run, remote, calls>>

StGetByID ==
    \E id \in RunIds :
        /\ ~Crashed
        /\ op' = Op("GetByID", id, <<>>, NoReplies, StoreGetByID(store, id, now),
                    StoreGetByIDErr(store, id, now), 0, 0)
        /\ UNCHANGED <<now, store, td, run, remote, calls>>

\* List (on its own or inside Cleanup) starts: os.ReadDir.
StListScan ==
    \E c \in Callers, kind \in {"List", "Cleanup"} :
        /\ ~Crashed
        /\ calls[c].pc = "idle"
        /\ calls' = [calls EXCEPT ![c] =
              [Idle EXCEPT !.kind = kind, !.pc = "read", !.i = 1,
                           !.entries = ReadDir(store)]]
        /\ op' = Op("ReadDir", "", <<>>, NoReplies, <<>>, FALSE, 0, 0)
        /\ UNCHANGED <<now, store, td, run, remote>>

\* One turn of List's loop: loadFromFile of the next entry. A file that is no
\* longer there makes loadFromFile return (nil, nil), and List dereferences
\* the nil pointer.
StListRead ==
    \E c \in Callers :
        /\ ~Crashed
        /\ calls[c].pc = "read"
        /\ calls[c].i <= Len(calls[c].entries)
        /\ LET id == calls[c].entries[calls[c].i]
               f == LoadFile(store, id, now)
           IN /\ calls' = [calls EXCEPT ![c] =
                    IF f.kind = "absent" THEN [@ EXCEPT !.pc = "panic"]
                    ELSE IF f.kind = "error" THEN [@ EXCEPT !.i = @ + 1]
                    ELSE [@ EXCEPT !.i = @ + 1, !.tracked = Append(@, f.td)]]
              /\ op' = Op(IF f.kind = "absent" THEN "panic" ELSE "ReadFile", id, <<>>,
                          NoReplies, <<>>, FALSE, 0, 0)
        /\ UNCHANGED <<now, store, td, run, remote>>

\* List returns what it loaded; value is the number of entries it skipped.
StListReturn ==
    \E c \in Callers :
        /\ ~Crashed
        /\ calls[c].kind = "List"
        /\ calls[c].pc = "read"
        /\ calls[c].i > Len(calls[c].entries)
        /\ calls' = [calls EXCEPT ![c] = Idle]
        /\ op' = [Op("List", "", <<>>, NoReplies, calls[c].tracked, FALSE, 0, 0)
                    EXCEPT !.value = Len(calls[c].entries) - Len(calls[c].tracked)]
        /\ UNCHANGED <<now, store, td, run, remote>>

\* Cleanup's loop over what its List returned, and its return.
StCleanupReturn ==
    \E c \in Callers, maxAgeSecs \in MaxAges :
        /\ ~Crashed
        /\ ~SaveInFlight
        /\ calls[c].kind = "Cleanup"
        /\ calls[c].pc = "read"
        /\ calls[c].i > Len(calls[c].entries)
        /\ LET r == CleanupLoop(calls[c].tracked, store, 0,
                                maxAgeSecs * TicksPerSecond, now)
           IN /\ store' = r.store
              /\ op' = Op("Cleanup", "", calls[c].tracked, NoReplies, <<>>, FALSE,
                          r.removed, maxAgeSecs)
        /\ calls' = [calls EXCEPT ![c] = Idle]
        /\ UNCHANGED <<now, td, run, remote>>

NextStore ==
    \/ StSaveOpen
    \/ StSaveWrite
    \/ StRemove
    \/ StGetByID
    \/ StListScan
    \/ StListRead
    \/ StListReturn
    \/ StCleanupReturn

SpecStore == Init /\ [][NextStore]_vars

----------------------------------------------------------------------------
(* Properties *)

\* C1: calling UpdateConclusion a second time on a TrackedDeployment (with any
\* conclusion, and with time passing between the calls) leaves CompletedAt
\* equal to the value the first call gave it.
C1_IdempotentCompletion ==
    [][(op'.name = "UpdateConclusion" /\ td.completedAt # NoTime)
          => td'.completedAt = td.completedAt]_vars

\* C5: Save(r) followed by GetByID(r.id) yields a record equal to r in every
\* field, whatever was stored under that id before.
C5_SaveThenGetByID ==
    [][(op.name = "Save" /\ op'.name = "GetByID" /\ op'.id = op.id)
          => op'.ret = op.ret]_vars

\* C10: after any sequence of UpdateStatus and UpdateConclusion calls, a
\* TrackedDeployment with a non-empty conclusion has status completed and a
\* completion timestamp (it is not active again).
C10_ConclusionImpliesCompleted ==
    td.conclusion # "" => (td.status = RunStatusCompleted /\ td.completedAt # NoTime)

\* The ids of the records of a slice.
IdsOf(tracked) == {tracked[i].id : i \in 1..Len(tracked)}

\* The gateway failed for run id in the last operation: an error, or no run.
GatewayFailed(id) == op.replies[id].kind \in {"error", "nil"}

FileIsStale(record, maxAgeSecs, t) ==
    IF record.completed_at # NoTime
    THEN t - record.completed_at * TicksPerSecond > maxAgeSecs * TicksPerSecond
    ELSE t - record.started_at * TicksPerSecond > maxAgeSecs * TicksPerSecond

FileIsActive(record) ==
    record.status = RunStatusInProgress \/ record.status = RunStatusQueued

\* The stored records completed for longer than maxAgeSecs.
StaleCompleted(st, maxAgeSecs, t) ==
    {id \in DOMAIN st : /\ st[id].status = RunStatusCompleted
                        /\ st[id].completed_at # NoTime
                        /\ FileIsStale(st[id], maxAgeSecs, t)}

\* The stored records that are active and younger than maxAgeSecs.
FreshActive(st, maxAgeSecs, t) ==
    {id \in DOMAIN st : FileIsActive(st[id]) /\ ~FileIsStale(st[id], maxAgeSecs, t)}

\* C3: on a store holding N active non-stale records and M records completed
\* for longer than maxAge, Cleanup(maxAge) removes exactly those M records and
\* returns M, and List() then returns exactly the N active records.
C3_GCCorrectness ==
    [][(/\ op'.name = "Cleanup"
        /\ DOMAIN store = StaleCompleted(store, op'.maxAge, now)
                             \cup FreshActive(store, op'.maxAge, now))
          => /\ op'.removed = Cardinality(StaleCompleted(store, op'.maxAge, now))
             /\ DOMAIN store' = FreshActive(store, op'.maxAge, now)
             /\ IdsOf(StoreList(store', now')) = FreshActive(store, op'.maxAge, now)]_vars

\* C4: once ListTracked has returned, no stored record has been active, or
\* completed, for longer than the 7-day retention window.
C4_StoreBounded ==
    (op.name = "ListTracked" /\ ~op.err) =>
        \A id \in DOMAIN store : ~FileIsStale(store[id], sevenDaysInSeconds, now)

\* The last operation refreshed record id with the gateway's answer
\* "completed, no conclusion".
RefreshedCompletedNoConclusion(o, id) ==
    /\ o.name \in {"ListTracked", "GetTracked"}
    /\ o.replies[id] = NewRun(RunStatusCompleted)

\* C6: after the Gateway reported status completed with an empty conclusion for
\* an active record, the next ListTracked/GetTracked calls GetRun for that
\* record again.
C6_PartialCompletionRefreshedAgain ==
    [][\A id \in RunIds :
          (/\ RefreshedCompletedNoConclusion(op, id)
           /\ op'.name \in {"ListTracked", "GetTracked"}
           /\ ~op'.err
           /\ op'.name = "GetTracked" => op'.id = id)
             => op'.replies[id].kind # "none"]_vars

StatusRank(status) ==
    CASE status = RunStatusQueued -> 0
      [] status = RunStatusInProgress -> 1
      [] status = RunStatusCompleted -> 2
      [] OTHER -> 3

\* C7: whatever the Gateway reports, a ListTracked/GetTracked refresh moves a
\* record's stored status only forward along queued -> in-progress -> completed
\* and never to a status outside these three.
C7_StatusMovesForward ==
    [][op'.name \in {"ListTracked", "GetTracked"} =>
          \A id \in DOMAIN store \cap DOMAIN store' :
              /\ StatusRank(store[id].status) <= StatusRank(store'[id].status)
              /\ store'[id].status \in
                    {RunStatusQueued, RunStatusInProgress, RunStatusCompleted}]_vars

\* The record with the given id among those an operation returned.
Returned(o, id) == CHOOSE r \in {o.ret[i] : i \in 1..Len(o.ret)} : r.id = id

IsRefresh(o) == o.name \in {"ListTracked", "GetTracked"} /\ ~o.err

\* C9: the lifecycle of a tracked run, step by step. After TrackDeployment(id)
\* the record is active; a refresh for which the Gateway reports in-progress
\* leaves it in-progress and active; a refresh for which the Gateway reports
\* conclusion success leaves it completed with IsSuccess() and CompletedAt set,
\* and from then on (until id is tracked again) ListActive() does not contain
\* id; after DismissTracked(id), id is not stored and GetTracked(id) returns
\* absent.
C9_Lifecycle ==
    [][/\ op'.name = "TrackDeployment" =>
              /\ op'.ret[1].id = op'.id
              /\ IsActive(op'.ret[1])
              /\ op'.id \in IdsOf(StoreListActive(store', now'))
       /\ \A id \in RunIds :
              (IsRefresh(op') /\ op'.replies[id] = NewRun(RunStatusInProgress)) =>
                  /\ Returned(op', id).status = RunStatusInProgress
                  /\ IsActive(Returned(op', id))
                  /\ id \in IdsOf(StoreListActive(store', now'))
       /\ \A id \in RunIds :
              (/\ IsRefresh(op')
               /\ op'.replies[id].kind = "run"
               /\ op'.replies[id].conclusion = RunConclusionSuccess) =>
                  /\ IsCompleted(Returned(op', id))
                  /\ IsSuccess(Returned(op', id))
                  /\ Returned(op', id).completedAt # NoTime
                  /\ id \in DOMAIN store'
                  /\ store'[id].conclusion = RunConclusionSuccess
                  /\ id \notin IdsOf(StoreListActive(store', now'))
       /\ \A id \in DOMAIN store :
              (/\ store[id].conclusion = RunConclusionSuccess
               /\ ~(op'.name = "TrackDeployment" /\ op'.id = id)) =>
                  id \notin IdsOf(StoreListActive(store', now'))
       /\ op'.name = "ListActive" => op'.ret = StoreListActive(store, now)
       /\ op'.name = "DismissTracked" => op'.id \notin DOMAIN store'
       /\ (op'.name = "GetTracked" /\ op'.id \notin DOMAIN store) =>
              (op'.ret = <<>> /\ ~op'.err)]_vars

\* C9 witness: a refresh has just recorded the Gateway's conclusion success on
\* a record that was stored in-progress, at a later time than it was tracked.
C9_Witness ==
    /\ op.name = "GetTracked"
    /\ op.loaded # <<>>
    /\ op.loaded[1].status = RunStatusInProgress
    /\ op.replies[op.id].conclusion = RunConclusionSuccess
    /\ IsSuccess(op.ret[1]) /\ IsCompleted(op.ret[1])
    /\ store[op.id].status = RunStatusCompleted
    /\ now > 0

\* C8: when refresh results for the same record arrive out of order or twice
\* (two ListTracked/GetTracked calls in flight), a record stored as completed
\* with a conclusion is never overwritten in the Store by an active (queued or
\* in-progress) version of itself.
C8_TerminalNotOverwritten ==
    [][\A id \in DOMAIN store \cap DOMAIN store' :
          (/\ store[id].status = RunStatusCompleted
           /\ store[id].conclusion # ""
           /\ op'.name = "Apply")
             => ~FileIsActive(store'[id])]_vars

\* C11: with Remove and Cleanup interleaved with List and Save, List does not
\* crash and returns only records that are stored (never the content of a
\* file that holds no record), also when a file is removed between List's
\* directory scan and its read of that file.
C11_ListSurvivesRemoval ==
    /\ ~Crashed
    /\ op.name = "List" =>
          \A i \in 1..Len(op.ret) : op.ret[i].id \in RunIds /\ op.ret[i] # NilTD

\* C12: Save is atomic per record: a GetByID concurrent with a Save never
\* returns an error, and a List concurrent with a Save skips no entry.
C12_SaveAtomicPerRecord ==
    /\ op.name = "GetByID" => ~op.err
    /\ op.name = "List" => op.value = 0

\* C13: DismissTracked never returns an error and leaves the id absent, so a
\* second DismissTracked of the same id (or one of an id never tracked) returns
\* no error either and changes nothing; GetTracked of the id after a
\* DismissTracked returns absent and no error.
C13_DismissIdempotent ==
    [][/\ op'.name = "DismissTracked" => ~op'.err /\ op'.id \notin DOMAIN store'
       /\ (op.name = "DismissTracked" /\ op'.name = "DismissTracked" /\ op'.id = op.id)
             => ~op.err /\ ~op'.err /\ store' = store
       /\ (op.name = "DismissTracked" /\ op'.name = "GetTracked" /\ op'.id = op.id)
             => op'.ret = <<>> /\ ~op'.err]_vars

\* A DismissTracked of an id that has no file, while another record is stored.
C13_Witness ==
    /\ op.name = "DismissTracked"
    /\ ~op.flag
    /\ ~op.err
    /\ store # EmptyStore

\* C14 as stated: IsStale is true for a record without completion time whose
\* start is older than maxAge, true for a record completed maxAge ago (or
\* longer), and false for a record completed maxAge/2 ago.
C14_StalenessDualRule ==
    op.name = "IsStale" =>
        /\ (td.completedAt = NoTime /\ now - td.startedAt > op.maxAge) => op.flag
        /\ (td.completedAt # NoTime /\ now - td.completedAt >= op.maxAge) => op.flag
        /\ (td.completedAt # NoTime /\ 2 * (now - td.completedAt) = op.maxAge) => ~op.flag

\* C14, amended: IsStale measures from the completion time when one is set and
\* from the start time otherwise, and is true exactly when that age is
\* strictly greater than maxAge: true for a record without completion time
\* whose start is older than maxAge, true for a record completed more than
\* maxAge ago, false for a record completed exactly maxAge ago or maxAge/2 ago
\* (however old its start is).
C14_StalenessStrict ==
    op.name = "IsStale" =>
        /\ (td.completedAt = NoTime /\ now - td.startedAt > op.maxAge) => op.flag
        /\ (td.completedAt # NoTime /\ now - td.completedAt > op.maxAge) => op.flag
        /\ (td.completedAt # NoTime /\ now - td.completedAt <= op.maxAge) => ~op.flag
        /\ (td.completedAt # NoTime /\ 2 * (now - td.completedAt) = op.maxAge) => ~op.flag

\* IsStale answered false for a record completed maxAge/2 ago whose start is
\* older than maxAge.
C14_Witness ==
    /\ op.name = "IsStale"
    /\ td.completedAt # NoTime
    /\ 2 * (now - td.completedAt) = op.maxAge
    /\ now - td.startedAt > op.maxAge
    /\ ~op.flag

\* C15: for an active record ElapsedTime never decreases from one instant to a
\* later one, neither on the record a caller holds nor from the record one
\* call returned to the record a later GetByID (GetTracked, ListTracked) of
\* the same id returns.
C15_ElapsedTimeMonotone ==
    [][/\ (IsActive(td) /\ IsActive(td') /\ td'.id = td.id)
             => ElapsedTime(td, now) <= ElapsedTime(td', now')
       /\ (op'.name \in {"GetByID", "Reload"} /\ op'.ret # <<>> /\ op'.id = td.id
             /\ IsActive(td) /\ IsActive(op'.ret[1]))
             => ElapsedTime(td, now) <= ElapsedTime(op'.ret[1], now')]_vars

\* C16: for a record with IsCompleted, ElapsedTime is the completion time
\* minus the start time, and it keeps its value while time passes.
C16_CompletedElapsedFixed ==
    [][/\ (op'.name = "ElapsedTime" /\ IsCompleted(td'))
             => /\ td'.completedAt # NoTime
                /\ op'.value = td'.completedAt - td'.startedAt
       /\ (IsCompleted(td) /\ td' = td)
             => ElapsedTime(td', now') = ElapsedTime(td, now)]_vars

\* C17: after any sequence of UpdateStatus and UpdateConclusion calls on a
\* Run, its conclusion is non-empty only if its status is completed.
C17_RunConclusionImpliesCompleted ==
    run.conclusion # "" => run.status = RunStatusCompleted

\* C18: GetTracked(id) is the per-record refresh of ListTracked applied to the
\* one record GetByID(id) returns: for an active record and the same gateway
\* answer it returns the same record and leaves the same store as ListTracked's
\* loop does for that record; for a record that is not active it returns the
\* record as stored, without a gateway call and without a store write.
C18_GetTrackedRefinesListRefresh ==
    [][op'.name = "GetTracked" =>
          LET got == StoreGetByID(store, op'.id, now)
              lt == RefreshLoop(got, store, 1, op'.replies, now)
          IN /\ op'.ret = lt.tracked
             /\ store' = lt.store
             /\ (got # <<>> /\ ~IsActive(got[1]))
                   => /\ op'.replies[op'.id] = NoCall
                      /\ op'.ret = got
                      /\ store' = store]_vars

\* GetTracked refreshed an active record with a gateway answer that changed it.
C18_Witness ==
    /\ op.name = "GetTracked"
    /\ op.replies[op.id].kind = "run"
    /\ op.ret # op.loaded
    /\ store[op.id] = ToRecord(op.ret[1])

\* C19: TrackDeployment stores and returns a record with id runID, status
\* queued and start time now; it returns an error only when the store write
\* fails, and then the store content is unchanged.
C19_TrackDeployment ==
    [][op'.name = "TrackDeployment" =>
          IF op'.err THEN store' = store
          ELSE /\ Len(op'.ret) = 1
               /\ op'.ret[1].id = op'.id
               /\ op'.ret[1].runID = op'.id
               /\ op'.ret[1].status = RunStatusQueued
               /\ op'.ret[1].startedAt = now
               /\ op'.id \in DOMAIN store'
               /\ store'[op'.id] = ToRecord(op'.ret[1])]_vars

\* C20: the store holds at most one record per run id: every file is the
\* record of the id it is named after, List never returns two records with the
\* same id, and after TrackDeployment of an id (present before or not) List
\* returns exactly one record with that id, the one just stored.
C20_OneRecordPerId ==
    LET all == StoreList(store, now)
    IN /\ \A k \in DOMAIN store : store[k].id = k /\ store[k].run_id = k
       /\ \A i, j \in 1..Len(all) : all[i].id = all[j].id => i = j
       /\ op.name = "TrackDeployment" =>
             /\ Cardinality({i \in 1..Len(all) : all[i].id = op.id}) = 1
             /\ store[op.id] = ToRecord(op.ret[1])

\* TrackDeployment has just stored a record while the store holds a record
\* of another id, which has been refreshed to completed.
C20_Witness ==
    /\ op.name = "TrackDeployment"
    /\ Cardinality(DOMAIN store) = 2
    /\ \E k \in DOMAIN store : k # op.id /\ store[k].status = RunStatusCompleted
    /\ store[op.id].started_at = Unix(now)
    /\ now > 0

\* The run ids of the records of a slice that are active, in the slice's order.
RECURSIVE ActiveRunIDs(_)
ActiveRunIDs(tracked) ==
    IF tracked = <<>> THEN <<>>
    ELSE IF Head(tracked).status \in {RunStatusQueued, RunStatusInProgress}
         THEN <<Head(tracked).runID>> \o ActiveRunIDs(Tail(tracked))
         ELSE ActiveRunIDs(Tail(tracked))

\* C21: in one ListTracked call GetRun is called exactly once for each record
\* that is active when loaded and never for a record that is not, one call
\* after the other in the order of the loaded records.
C21_OneGetRunPerActiveRecord ==
    (op.name = "ListTracked" /\ ~op.err) =>
        /\ op.gets = ActiveRunIDs(op.loaded)
        /\ \A i \in 1..Len(op.loaded) :
              Cardinality({k \in 1..Len(op.gets) : op.gets[k] = op.loaded[i].runID})
                 = IF IsActive(op.loaded[i]) THEN 1 ELSE 0
        /\ \A id \in RunIds :
              (op.replies[id] # NoCall) <=> (\E k \in 1..Len(op.gets) : op.gets[k] = id)

\* ListTracked loaded an active and a completed record and called GetRun once.
C21_Witness ==
    /\ op.name = "ListTracked"
    /\ Len(op.loaded) = 2
    /\ \E i \in 1..2 : IsCompleted(op.loaded[i])
    /\ Len(op.gets) = 1

\* C22: when os.Remove fails for a stale record during Cleanup, Cleanup
\* returns an error.
C22_CleanupSurfacesRemoveFailure ==
    (/\ op.name = "Cleanup"
     /\ \E i \in 1..Len(op.loaded) :
           /\ op.loaded[i].id \in op.failure.remove
           /\ IsStale(op.loaded[i], op.maxAge * TicksPerSecond, now))
        => op.err

\* The ids of the files of a store that hold a well-formed record.
WellFormedIds(st) == {k \in DOMAIN st : ~LoadFails(st[k])}

\* C23: a corrupt record is skipped by the scan: List returns every other
\* stored record and no error, and a Cleanup over a store with a corrupt
\* record leaves no other record that is stale by its stored timestamps.
C23_CorruptRecordSkipped ==
    /\ (op.name = "List" /\ op.failure.readDir = "ok") =>
          /\ ~op.err
          /\ IdsOf(op.ret) = WellFormedIds(store)
          /\ Len(op.ret) = Cardinality(WellFormedIds(store))
    /\ (/\ op.name = "Cleanup"
        /\ op.failure.readDir = "ok"
        /\ op.failure.remove = {}
        /\ WellFormedIds(store) # DOMAIN store) =>
          /\ ~op.err
          /\ \A k \in WellFormedIds(store) : ~FileIsStale(store[k], op.maxAge, now)

\* The record a refresh returns carries what the gateway answered.
CarriesReply(d, reply) ==
    /\ reply.conclusion # "" => (d.conclusion = reply.conclusion /\ IsCompleted(d))
    /\ reply.conclusion = "" => d.status = reply.status

\* ListTracked returned, for every loaded record, the record as loaded or,
\* where GetRun answered with a run for an active record, the record carrying
\* the answer.
ReturnsRefreshed(o) ==
    /\ ~o.err
    /\ Len(o.ret) = Len(o.loaded)
    /\ \A i \in 1..Len(o.loaded) :
          /\ o.ret[i].id = o.loaded[i].id
          /\ IF IsActive(o.loaded[i]) /\ o.replies[o.loaded[i].runID].kind = "run"
             THEN CarriesReply(o.ret[i], o.replies[o.loaded[i].runID])
             ELSE o.ret[i] = o.loaded[i]

\* C24: when the Cleanup at the end of ListTracked fails, ListTracked still
\* returns the refreshed collection and no error.
C24_CleanupFailureNotSurfaced ==
    (/\ op.name = "ListTracked"
     /\ op.failure.readDir # "error"
     /\ op.failure.cleanupReadDir = "error")
        => ReturnsRefreshed(op)

\* ListTracked refreshed a record to completed and its Cleanup failed.
C24_Witness ==
    /\ op.name = "ListTracked"
    /\ op.failure.readDir = "ok"
    /\ op.failure.cleanupReadDir = "error"
    /\ \E i \in 1..Len(op.ret) : IsActive(op.loaded[i]) /\ IsCompleted(op.ret[i])
    /\ ~op.err

\* C28: List on a store that is empty or whose directory does not exist
\* returns an empty collection and no error, and so does ListTracked; the
\* store stays empty.
C28_EmptyStoreListsEmpty ==
    [][(/\ op'.name \in {"List", "ListTracked"}
        /\ store = EmptyStore
        /\ op'.failure.readDir # "error")
          => (op'.ret = <<>> /\ ~op'.err /\ store' = EmptyStore)]_vars

\* ListTracked ran on a store whose directory does not exist, after time
\* has passed.
C28_Witness ==
    /\ op.name = "ListTracked"
    /\ op.failure.readDir = "notexist"
    /\ op.ret = <<>>
    /\ ~op.err
    /\ store = EmptyStore
    /\ now > 0

\* C30: when Save fails for the refreshed records during ListTracked,
\* ListTracked returns no error, the returned records carry what the gateway
\* answered, and the store keeps the previous version of each record.
C30_SaveFailureKeepsStoredVersion ==
    [][(/\ op'.name = "ListTracked"
        /\ op'.failure.readDir # "error"
        /\ op'.failure.save # "none")
          => (ReturnsRefreshed(op') /\ store' = store)]_vars

\* C25: GetTracked of an id that has no file returns absent and no error,
\* calls GetRun zero times and leaves the store unchanged.
C25_GetTrackedAbsent ==
    [][(op'.name = "GetTracked" /\ op'.id \notin DOMAIN store)
          => /\ op'.ret = <<>>
             /\ ~op'.err
             /\ op'.gets = <<>>
             /\ op'.replies = NoReplies
             /\ store' = store]_vars

\* GetTracked returned absent for an id without a file while another id is
\* stored.
C25_Witness ==
    /\ op.name = "GetTracked"
    /\ op.id \notin DOMAIN store
    /\ op.ret = <<>>
    /\ store # EmptyStore
    /\ now > 0

\* C26: ListActive returns exactly the records of List whose status is queued
\* or in progress, in List's order.
C26_ListActiveIsFilteredList ==
    op.name = "ListActive" =>
        LET all == StoreList(store, now)
            active == {j \in 1..Len(all) :
                          all[j].status \in {RunStatusQueued, RunStatusInProgress}}
        IN /\ Len(op.ret) = Cardinality(active)
           /\ \A j \in active : \E i \in 1..Len(op.ret) : op.ret[i] = all[j]
           /\ \A i \in 1..Len(op.ret) : \E j \in active : op.ret[i] = all[j]
           /\ \A i, k \in 1..Len(op.ret) :
                 i < k => \E j, l \in active : j < l /\ op.ret[i] = all[j] /\ op.ret[k] = all[l]

\* ListActive returned one of two stored records, the other being completed.
C26_Witness ==
    /\ op.name = "ListActive"
    /\ Cardinality(DOMAIN store) = 2
    /\ Len(op.ret) = 1
    /\ \E k \in DOMAIN store : store[k].status = RunStatusCompleted

\* C27: the orchestrator's ListActive makes no GetRun call, writes nothing to
\* the store, removes nothing, and returns the store's ListActive result.
C27_ListActiveNoRefresh ==
    [][op'.name = "ListActive"
          => /\ store' = store
             /\ op'.gets = <<>>
             /\ op'.replies = NoReplies
             /\ ~op'.err
             /\ op'.ret = StoreListActive(store, now)]_vars

\* ListActive returned two active records some time after they were stored.
C27_Witness ==
    /\ op.name = "ListActive"
    /\ Len(op.ret) = 2
    /\ \A k \in DOMAIN store : store[k].started_at < Unix(now)

\* C29: in a ListTracked pass in which GetRun fails for an active record,
\* every other active record for which GetRun answers with a run is updated
\* with the answer and saved, and every loaded record is returned.
C29_GatewayFailureDoesNotStopPass ==
    (/\ op.name = "ListTracked"
     /\ ~op.err
     /\ \E i \in 1..Len(op.loaded) : GatewayFailed(op.loaded[i].runID))
        => /\ ReturnsRefreshed(op)
           /\ \A i \in 1..Len(op.loaded) :
                 (IsActive(op.loaded[i]) /\ op.replies[op.loaded[i].runID].kind = "run")
                    => /\ op.ret[i].id \in DOMAIN store
                       /\ store[op.ret[i].id] = ToRecord(op.ret[i])

\* GetRun failed for the first of two active records and the second one was
\* refreshed to completed.
C29_Witness ==
    /\ op.name = "ListTracked"
    /\ Len(op.loaded) = 2
    /\ IsActive(op.loaded[1])
    /\ GatewayFailed(op.loaded[1].runID)
    /\ IsActive(op.loaded[2])
    /\ IsCompleted(op.ret[2])
    /\ store[op.ret[2].id].status = RunStatusCompleted

\* C34: when the store's List fails, ListTracked returns an error and nothing
\* else: it makes no GetRun call, leaves every file of the store as it was
\* and does not call cleanupStale.
C34_ListFailureStopsListTracked ==
    [][(op'.name = "ListTracked" /\ op'.failure.readDir = "error")
       => /\ op'.err
          /\ op'.ret = <<>>
          /\ op'.gets = <<>>
          /\ op'.cleanups = 0
          /\ store' = store]_vars

\* ListTracked has failed in its List over a store that holds an active
\* record, which a pass would have refreshed.
C34_Witness ==
    /\ op.name = "ListTracked"
    /\ op.failure.readDir = "error"
    /\ op.err
    /\ \E id \in DOMAIN store : store[id] # TruncatedFile /\ FileIsActive(store[id])

\* C33: every record the engine has stored, and every record its last
\* operation returned, is either active (queued or in progress) or completed,
\* never both and never neither, whatever status the gateway has reported.
C33_ActiveXorCompleted ==
    /\ \A id \in DOMAIN store :
          store[id] # TruncatedFile =>
              (FileIsActive(store[id]) # (store[id].status = RunStatusCompleted))
    /\ \A i \in 1..Len(op.ret) : IsActive(op.ret[i]) # IsCompleted(op.ret[i])

\* C31: when ListTracked returns without an error, the records it returns
\* are the records the store then holds, id for id: none of them has left the
\* store during the call, and no record of the store is missing.
C31_ReturnedIdsAreStoredIds ==
    (op.name = "ListTracked" /\ ~op.err) => IdsOf(op.ret) = WellFormedIds(store)

\* C32: an id that is absent from the store, as it is once DismissTracked(id)
\* has returned, enters the store again only by TrackDeployment(id); a
\* ListTracked or GetTracked call in flight that loaded the record before the
\* dismissal does not bring it back when it saves.
C32_DismissedStaysAbsent ==
    [][\A id \in RunIds :
          (id \notin DOMAIN store /\ id \in DOMAIN store')
              => (op'.name = "TrackDeployment" /\ op'.id = id)]_vars

====
